---- MODULE Spec2Model ----
(***************************************************************************)
(* A model of the loona response core:                                     *)
(*   - the typestate Responder (crates/loona/src/responder.rs),            *)
(*   - the HTTP/2 body adapter H2Body (src/h2/body.rs),                    *)
(*   - the read_and_parse driver (crates/loona/src/util.rs).               *)
(* Each of the three is explored by its own specification (Spec, SpecBody, *)
(* SpecRP); the variables of the other two stay at their initial values.   *)
(***************************************************************************)
EXTENDS Integers, Sequences, FiniteSets, TLC

(***************************************************************************)
(* Bounds of the exploration.                                              *)
(***************************************************************************)
\* number of interim responses that reach the encoder
MaxInterim == 2
\* number of write_body_chunk calls that reach the encoder
MaxChunks == 2
\* largest chunk length (Piece::len)
MaxChunkLen == 2

(***************************************************************************)
(* Option<T>: None is the empty sequence, Some(x) the one-element one.     *)
(***************************************************************************)
None == <<>>

Some(x) == <<x>>

IsSome(o) == o /= <<>>

Unwrap(o) == o[1]

(***************************************************************************)
(* Values the model draws its inputs from.                                 *)
(***************************************************************************)
\* http::StatusCode values passed by handlers, on both sides of 199/200
Statuses == {100, 199, 200, 404}

\* ASCII decimal digits, indexed by value + 1
DigitChars == <<"0", "1", "2", "3", "4", "5", "6", "7", "8", "9">>

\* Content-Length header values a caller may put in the response headers
\* (byte strings as sequences of characters); None is "header absent"
HeaderValues ==
    { None, Some(<<"0", "3">>), Some(<<"x">>) }

\* Body::content_len() of the body handed to write_final_response_with_body
BodyLens == { None, Some(16) }

\* Option<Box<Headers>> trailers
TrailerValues == { None, Some("trailers") }

(***************************************************************************)
(* State.                                                                  *)
(***************************************************************************)
VARIABLES
    \* Responder
    phase,                      \* typestate S of Responder<E, S>
    announced_content_length,   \* ExpectResponseBody.announced_content_length
    bytes_written,              \* ExpectResponseBody.bytes_written
    encoder_calls,              \* every call made on the Encoder, in order
    last,                       \* the last Responder operation and its result
    wfb_pc,                     \* position inside write_final_response_with_body
    wfb_chunk,                  \* the BodyChunk the last body pull returned
    body_pulls,                 \* results of body.next_chunk() inside that call
    body_content_len,           \* body.content_len() of the body of that call
    \* H2Body
    h2_content_length,          \* H2Body.content_length
    eof,                        \* H2Body.eof
    rx,                         \* messages queued in the mpsc channel behind H2Body.rx
    tx_dropped,                 \* every Sender of that channel has been dropped
    sent,                       \* every message the demultiplexer has sent, in order
    pulled,                     \* the result of every next_chunk() call, in order
    \* read_and_parse
    rp_pc,                      \* position in the loop: "parse", "read" or "done"
    buf_len,                    \* buf.len(), the filled length of the buffer
    max_len,                    \* the max_len argument
    stream_left,                \* bytes the transport will still deliver
    read_limit,                 \* the local read_limit
    parsed,                     \* what the last parser run reported
    last_n,                     \* what the last read_into returned (-1: no read yet)
    reads,                      \* number of read_into calls
    buf_init,                   \* buf.len() on entry
    rp_result                   \* what read_and_parse returned

respVars ==
    << phase, announced_content_length, bytes_written, encoder_calls, last,
       wfb_pc, wfb_chunk, body_pulls, body_content_len >>

bodyVars == << h2_content_length, eof, rx, tx_dropped, sent, pulled >>

rpVars ==
    << rp_pc, buf_len, max_len, stream_left, read_limit, parsed, last_n, reads,
       buf_init, rp_result >>

vars == << respVars, bodyVars, rpVars >>

(***************************************************************************)
(* Helpers of the Responder.                                               *)
(***************************************************************************)
\* is_informational with the upper bound off by one
is_informational_off_by_one(s) == s >= 100 /\ s <= 200

\* StatusCode::is_informational: 100 <= s < 200
is_informational(s) == s >= 100 /\ s < 200

\* format!("{clen}"): decimal ASCII, no sign, no leading zeros
RECURSIVE FormatDecimal(_)
FormatDecimal(n) ==
    IF n < 10 THEN << DigitChars[n + 1] >>
    ELSE FormatDecimal(n \div 10) \o << DigitChars[(n % 10) + 1] >>

DigitValue(c) == CHOOSE d \in 0..9 : DigitChars[d + 1] = c

IsDigit(c) == \E d \in 0..9 : DigitChars[d + 1] = c

RECURSIVE ParseDecimal(_)
ParseDecimal(s) ==
    IF Len(s) = 1 THEN DigitValue(s[1])
    ELSE 10 * ParseDecimal(SubSeq(s, 1, Len(s) - 1)) + DigitValue(s[Len(s)])

\* HeadersExt::content_length: the Content-Length entry parsed as a u64,
\* None when the header is absent or its value is not a decimal number
content_length(headers) ==
    IF ~IsSome(headers) THEN None
    ELSE IF Unwrap(headers) = <<>> THEN None
    ELSE IF \E i \in 1..Len(Unwrap(headers)) : ~IsDigit(Unwrap(headers)[i]) THEN None
    ELSE Some(ParseDecimal(Unwrap(headers)))

\* insert() in place of entry().or_insert_with(): the caller's value is lost
or_insert_content_length_overwrite(headers, clen) == Some(FormatDecimal(clen))

\* res.headers.entry(CONTENT_LENGTH).or_insert_with(|| format!("{clen}")):
\* an existing entry is kept, a vacant one gets the formatted length
or_insert_content_length(headers, clen) ==
    IF IsSome(headers) THEN headers ELSE Some(FormatDecimal(clen))

\* One call on the Encoder trait, as seen by the encoder
EncCall(op, status, headers, len, trailers, ok) ==
    [ op |-> op, status |-> status, headers |-> headers, len |-> len,
      trailers |-> trailers, ok |-> ok ]

NoError == [ kind |-> "none", a |-> 0, b |-> 0 ]

EncoderError == [ kind |-> "EncoderError", a |-> 0, b |-> 0 ]

\* eyre::bail!("content-length mismatch: announced {a}, wrote {b}")
ContentLengthMismatch(announced, wrote) ==
    [ kind |-> "content-length mismatch", a |-> announced, b |-> wrote ]

\* The record of an operation: its name, its Response argument, its result
Outcome(op, status, headers, result, err) ==
    [ op |-> op, status |-> status, headers |-> headers, result |-> result, err |-> err ]

NoChunk == [ kind |-> "none", len |-> 0, trailers |-> None ]

(***************************************************************************)
(* Responder<E, ExpectResponseHeaders>                                     *)
(***************************************************************************)
\* The responder is held by the caller (no write_final_response_with_body
\* is running on it)
Idle == wfb_pc = "idle"

InterimWritten == Len(encoder_calls)

\* write_interim_response without the status check
write_interim_response_unchecked(res) ==
    /\ phase = "ExpectHeaders"
    /\ Idle
    /\ InterimWritten < MaxInterim
    /\ \E ok \in BOOLEAN :
         /\ encoder_calls' = Append(encoder_calls,
                EncCall("write_response", res.status, res.headers, 0, None, ok))
         /\ last' = Outcome("write_interim_response", res.status, res.headers,
                       IF ok THEN "ok" ELSE "err",
                       IF ok THEN NoError ELSE EncoderError)
    /\ UNCHANGED << phase, announced_content_length, bytes_written,
                    wfb_pc, wfb_chunk, body_pulls, body_content_len >>

\* Responder::write_interim_response(&mut self, res)
write_interim_response(res) ==
    /\ phase = "ExpectHeaders"
    /\ Idle
    /\ InterimWritten < MaxInterim
    /\ IF ~is_informational(res.status)
       THEN /\ last' = Outcome("write_interim_response", res.status, res.headers, "err",
                        [ kind |-> "InterimResponseMustHaveStatusCode1xx",
                          a |-> res.status, b |-> 0 ])
            /\ UNCHANGED encoder_calls
       ELSE \E ok \in BOOLEAN :
            /\ encoder_calls' = Append(encoder_calls,
                   EncCall("write_response", res.status, res.headers, 0, None, ok))
            /\ last' = Outcome("write_interim_response", res.status, res.headers,
                          IF ok THEN "ok" ELSE "err",
                          IF ok THEN NoError ELSE EncoderError)
    /\ UNCHANGED << phase, announced_content_length, bytes_written,
                    wfb_pc, wfb_chunk, body_pulls, body_content_len >>

\* Responder::write_final_response_internal(self, res, announced_content_length),
\* called on behalf of operation op; caller_headers are the headers the
\* handler passed to op, next_pc is where op continues on success.
\* self is consumed: on an error the responder is dropped.
write_final_response_internal(res, announced, op, caller_headers, next_pc) ==
    /\ phase = "ExpectHeaders"
    /\ Idle
    /\ IF is_informational(res.status)
       THEN /\ last' = Outcome(op, res.status, caller_headers, "err",
                        [ kind |-> "FinalResponseMustHaveStatusCodeGreaterThanOrEqualTo200",
                          a |-> res.status, b |-> 0 ])
            /\ phase' = "Dropped"
            /\ UNCHANGED << encoder_calls, announced_content_length, bytes_written, wfb_pc >>
       ELSE \E ok \in BOOLEAN :
            /\ encoder_calls' = Append(encoder_calls,
                   EncCall("write_response", res.status, res.headers, 0, None, ok))
            /\ IF ok
               THEN /\ phase' = "ExpectBody"
                    /\ announced_content_length' = announced
                    /\ bytes_written' = 0
                    /\ wfb_pc' = next_pc
                    /\ last' = Outcome(op, res.status, caller_headers,
                                  IF next_pc = "idle" THEN "ok" ELSE "pending", NoError)
               ELSE /\ phase' = "Dropped"
                    /\ last' = Outcome(op, res.status, caller_headers, "err", EncoderError)
                    /\ UNCHANGED << announced_content_length, bytes_written, wfb_pc >>
    /\ UNCHANGED << wfb_chunk, body_pulls >>

\* write_final_response that forgets the announced length
write_final_response_no_length(res) ==
    /\ write_final_response_internal(res, None,
                                     "write_final_response", res.headers, "idle")
    /\ UNCHANGED body_content_len

\* Responder::write_final_response(self, res)
write_final_response(res) ==
    /\ write_final_response_internal(res, content_length(res.headers),
                                     "write_final_response", res.headers, "idle")
    /\ UNCHANGED body_content_len

(***************************************************************************)
(* Responder<E, ExpectResponseBody>                                        *)
(***************************************************************************)
ChunksWritten ==
    Len(SelectSeq(encoder_calls, LAMBDA c : c.op = "write_body_chunk"))

\* write_chunk that counts the bytes only after the encoder accepted them
write_chunk_effect_count_after(len, ok) ==
    /\ bytes_written' = IF ok THEN bytes_written + len ELSE bytes_written
    /\ encoder_calls' = Append(encoder_calls,
           EncCall("write_body_chunk", 0, None, len, None, ok))

\* The body of Responder::write_chunk(&mut self, chunk): the counter is
\* bumped, then the chunk goes to the encoder.  The counter is a u64; the
\* bounds keep the total far below 2^64.
write_chunk_effect(len, ok) ==
    /\ bytes_written' = bytes_written + len
    /\ encoder_calls' = Append(encoder_calls,
           EncCall("write_body_chunk", 0, None, len, None, ok))

\* Responder::write_chunk called by the handler
write_chunk(len) ==
    /\ phase = "ExpectBody"
    /\ Idle
    /\ ChunksWritten < MaxChunks
    /\ \E ok \in BOOLEAN :
         /\ write_chunk_effect(len, ok)
         /\ last' = Outcome("write_chunk", 0, None,
                       IF ok THEN "ok" ELSE "err",
                       IF ok THEN NoError ELSE EncoderError)
    /\ UNCHANGED << phase, announced_content_length, wfb_pc, wfb_chunk, body_pulls,
                    body_content_len >>

\* a length check that only catches overshoot
length_mismatch_overshoot_only(announced, written) ==
    IsSome(announced) /\ written > Unwrap(announced)

\* the check at the head of finish_body: an announced length was recorded
\* and bytes_written differs from it
length_mismatch(announced, written) ==
    IsSome(announced) /\ written /= Unwrap(announced)

\* finish_body that ends the body first and checks the length afterwards
finish_body_effect_end_first(trailers, op) ==
    \E end_ok \in BOOLEAN :
        /\ encoder_calls' = Append(encoder_calls,
               EncCall("write_body_end", 0, None, 0, None, end_ok))
        /\ phase' = IF end_ok /\ ~length_mismatch(announced_content_length, bytes_written)
                    THEN "Done" ELSE "Dropped"
        /\ last' = IF ~end_ok
                   THEN Outcome(op, last.status, last.headers, "err", EncoderError)
                   ELSE IF length_mismatch(announced_content_length, bytes_written)
                   THEN Outcome(op, last.status, last.headers, "err",
                            ContentLengthMismatch(Unwrap(announced_content_length),
                                                  bytes_written))
                   ELSE Outcome(op, last.status, last.headers, "ok", NoError)

\* finish_body that ends the body and forgets the trailers
finish_body_effect_trailers_dropped(trailers, op) ==
    IF length_mismatch(announced_content_length, bytes_written)
    THEN /\ last' = Outcome(op, last.status, last.headers, "err",
                     ContentLengthMismatch(Unwrap(announced_content_length), bytes_written))
         /\ phase' = "Dropped"
         /\ UNCHANGED encoder_calls
    ELSE \E end_ok \in BOOLEAN :
         /\ encoder_calls' = Append(encoder_calls,
                EncCall("write_body_end", 0, None, 0, None, end_ok))
         /\ phase' = IF end_ok THEN "Done" ELSE "Dropped"
         /\ last' = Outcome(op, last.status, last.headers,
                       IF end_ok THEN "ok" ELSE "err",
                       IF end_ok THEN NoError ELSE EncoderError)

\* The body of Responder::finish_body(self, trailers) on behalf of op.
\* self is consumed: on an error the responder is dropped.
finish_body_effect(trailers, op) ==
    IF length_mismatch(announced_content_length, bytes_written)
    THEN /\ last' = Outcome(op, last.status, last.headers, "err",
                     ContentLengthMismatch(Unwrap(announced_content_length), bytes_written))
         /\ phase' = "Dropped"
         /\ UNCHANGED encoder_calls
    ELSE \E end_ok \in BOOLEAN :
         IF ~end_ok
         THEN /\ encoder_calls' = Append(encoder_calls,
                     EncCall("write_body_end", 0, None, 0, None, FALSE))
              /\ phase' = "Dropped"
              /\ last' = Outcome(op, last.status, last.headers, "err", EncoderError)
         ELSE IF IsSome(trailers)
         THEN \E tr_ok \in BOOLEAN :
              /\ encoder_calls' = encoder_calls \o
                     << EncCall("write_body_end", 0, None, 0, None, TRUE),
                        EncCall("write_trailers", 0, None, 0, trailers, tr_ok) >>
              /\ phase' = IF tr_ok THEN "Done" ELSE "Dropped"
              /\ last' = Outcome(op, last.status, last.headers,
                            IF tr_ok THEN "ok" ELSE "err",
                            IF tr_ok THEN NoError ELSE EncoderError)
         ELSE /\ encoder_calls' = Append(encoder_calls,
                     EncCall("write_body_end", 0, None, 0, None, TRUE))
              /\ phase' = "Done"
              /\ last' = Outcome(op, last.status, last.headers, "ok", NoError)

\* Responder::finish_body called by the handler
finish_body(trailers) ==
    /\ phase = "ExpectBody"
    /\ Idle
    /\ finish_body_effect(trailers, "finish_body")
    /\ UNCHANGED << announced_content_length, bytes_written, wfb_pc, wfb_chunk,
                    body_pulls, body_content_len >>

(***************************************************************************)
(* Responder<E, ResponseDone>                                              *)
(***************************************************************************)
\* Responder::into_inner(self): hands the encoder back, no I/O
into_inner ==
    /\ phase = "Done"
    /\ Idle
    /\ phase' = "Unwrapped"
    /\ last' = Outcome("into_inner", last.status, last.headers, "ok", NoError)
    /\ UNCHANGED << announced_content_length, bytes_written, encoder_calls,
                    wfb_pc, wfb_chunk, body_pulls, body_content_len >>

\* Cancellation: the responder (or the future that owns it) is dropped
Drop ==
    /\ phase \in {"ExpectHeaders", "ExpectBody", "Done"}
    /\ phase' = "Dropped"
    /\ wfb_pc' = "idle"
    /\ last' = Outcome("drop", last.status, last.headers,
                  IF wfb_pc = "idle" THEN "ok" ELSE "cancelled", NoError)
    /\ UNCHANGED << announced_content_length, bytes_written, encoder_calls,
                    wfb_chunk, body_pulls, body_content_len >>

(***************************************************************************)
(* Responder::write_final_response_with_body(self, res, body), one action  *)
(* per await point.  The body is any implementation of the Body trait: a   *)
(* pull yields a chunk, done with optional trailers, or an error.          *)
(***************************************************************************)
Chunk(len) == [ kind |-> "Chunk", len |-> len, trailers |-> None ]

Done(trailers) == [ kind |-> "Done", len |-> 0, trailers |-> trailers ]

PullError == [ kind |-> "Err", len |-> 0, trailers |-> None ]

\* the response handed to write_final_response: Content-Length is inserted
\* when the body knows its length and the headers have none
with_body_response(res, clen) ==
    IF IsSome(clen)
    THEN [ res EXCEPT !.headers = or_insert_content_length(res.headers, Unwrap(clen)) ]
    ELSE res

\* entry up to `self.write_final_response(res).await?`
wfb_start(res, clen) ==
    /\ body_content_len' = clen
    /\ write_final_response_internal(
           with_body_response(res, clen),
           content_length(with_body_response(res, clen).headers),
           "write_final_response_with_body", res.headers, "pull")

\* the loop's handling of what `body.next_chunk().await?` returned: an
\* error leaves the function through `?`, a chunk goes to write_chunk, done
\* goes to finish_body
wfb_on_pull(c) ==
    /\ body_pulls' = Append(body_pulls, c)
    /\ wfb_chunk' = c
    /\ IF c.kind = "Err"
       THEN /\ phase' = "Dropped"
            /\ wfb_pc' = "idle"
            /\ last' = Outcome("write_final_response_with_body", last.status,
                          last.headers, "err",
                          [ kind |-> "BodyError", a |-> 0, b |-> 0 ])
       ELSE /\ wfb_pc' = IF c.kind = "Chunk" THEN "chunk" ELSE "finish"
            /\ UNCHANGED << phase, last >>

\* `body.next_chunk().await?` over any implementation of Body
wfb_pull ==
    /\ phase = "ExpectBody"
    /\ wfb_pc = "pull"
    /\ \E c \in { Chunk(n) : n \in 1..MaxChunkLen } \cup { Done(t) : t \in TrailerValues }
                \cup { PullError } :
         /\ c.kind = "Chunk" => ChunksWritten < MaxChunks
         /\ wfb_on_pull(c)
    /\ UNCHANGED << announced_content_length, bytes_written, encoder_calls,
                    body_content_len >>

\* a loop that does not leave on a failed chunk write
wfb_write_chunk_ignores_error ==
    /\ phase = "ExpectBody"
    /\ wfb_pc = "chunk"
    /\ \E ok \in BOOLEAN : write_chunk_effect(wfb_chunk.len, ok)
    /\ wfb_pc' = "pull"
    /\ UNCHANGED << phase, last, announced_content_length, wfb_chunk, body_pulls,
                    body_content_len >>

\* `this.write_chunk(chunk).await?`
wfb_write_chunk ==
    /\ phase = "ExpectBody"
    /\ wfb_pc = "chunk"
    /\ \E ok \in BOOLEAN :
         /\ write_chunk_effect(wfb_chunk.len, ok)
         /\ IF ok
            THEN /\ wfb_pc' = "pull"
                 /\ UNCHANGED << phase, last >>
            ELSE /\ wfb_pc' = "idle"
                 /\ phase' = "Dropped"
                 /\ last' = Outcome("write_final_response_with_body", last.status,
                               last.headers, "err", EncoderError)
    /\ UNCHANGED << announced_content_length, wfb_chunk, body_pulls, body_content_len >>

\* a loop that finishes the body without the trailers of the done chunk
wfb_finish_without_trailers ==
    /\ phase = "ExpectBody"
    /\ wfb_pc = "finish"
    /\ finish_body_effect(None, "write_final_response_with_body")
    /\ wfb_pc' = "idle"
    /\ UNCHANGED << announced_content_length, bytes_written, wfb_chunk, body_pulls,
                    body_content_len >>

\* `return this.finish_body(trailers).await`
wfb_finish ==
    /\ phase = "ExpectBody"
    /\ wfb_pc = "finish"
    /\ finish_body_effect(wfb_chunk.trailers, "write_final_response_with_body")
    /\ wfb_pc' = "idle"
    /\ UNCHANGED << announced_content_length, bytes_written, wfb_chunk, body_pulls,
                    body_content_len >>

(***************************************************************************)
(* The Responder specification.                                            *)
(***************************************************************************)
\* Responses a handler passes in
Responses == [ status : Statuses, headers : HeaderValues ]

\* Interim responses carry no Content-Length
InterimResponses == [ status : Statuses, headers : { None } ]

\* Responder::new(encoder)
RespInit ==
    /\ phase = "ExpectHeaders"
    /\ announced_content_length = None
    /\ bytes_written = 0
    /\ encoder_calls = <<>>
    /\ last = Outcome("new", 0, None, "ok", NoError)
    /\ wfb_pc = "idle"
    /\ wfb_chunk = NoChunk
    /\ body_pulls = <<>>
    /\ body_content_len = None

\* H2Body and read_and_parse at rest, for the specifications that do not
\* exercise them
BodyAtRest ==
    /\ h2_content_length = None
    /\ eof = FALSE
    /\ rx = <<>>
    /\ tx_dropped = FALSE
    /\ sent = <<>>
    /\ pulled = <<>>

RPAtRest ==
    /\ rp_pc = "done"
    /\ buf_len = 0
    /\ max_len = 0
    /\ stream_left = 0
    /\ read_limit = 0
    /\ parsed = "none"
    /\ last_n = -1
    /\ reads = 0
    /\ buf_init = 0
    /\ rp_result = [ kind |-> "none", limit |-> 0, rest |-> 0 ]


Init == RespInit /\ BodyAtRest /\ RPAtRest

Next ==
    \/ /\ \E res \in InterimResponses : write_interim_response(res)
       /\ UNCHANGED << bodyVars, rpVars >>
    \/ /\ \E res \in Responses : write_final_response(res)
       /\ UNCHANGED << bodyVars, rpVars >>
    \/ /\ \E res \in Responses : \E clen \in BodyLens : wfb_start(res, clen)
       /\ UNCHANGED << bodyVars, rpVars >>
    \/ wfb_pull /\ UNCHANGED << bodyVars, rpVars >>
    \/ wfb_write_chunk /\ UNCHANGED << bodyVars, rpVars >>
    \/ wfb_finish /\ UNCHANGED << bodyVars, rpVars >>
    \/ /\ \E len \in 1..MaxChunkLen : write_chunk(len)
       /\ UNCHANGED << bodyVars, rpVars >>
    \/ /\ \E trailers \in TrailerValues : finish_body(trailers)
       /\ UNCHANGED << bodyVars, rpVars >>
    \/ into_inner /\ UNCHANGED << bodyVars, rpVars >>
    \/ Drop /\ UNCHANGED << bodyVars, rpVars >>

Spec == Init /\ [][Next]_vars

(***************************************************************************)
(* Properties of the Responder.                                            *)
(***************************************************************************)
WithBody == "write_final_response_with_body"

LastCall == encoder_calls[Len(encoder_calls)]

\* The encoder-side grammar
\*   write_response(1xx)* write_response(>=200) write_body_chunk*
\*   write_body_end write_trailers?
\* as an automaton: 0 before the final response, 1 in the body, 2 after
\* write_body_end, 3 after write_trailers, 4 when the grammar is broken.
GrammarStep(st, c) ==
    IF st = 0 /\ c.op = "write_response" /\ c.status >= 100 /\ c.status <= 199 THEN 0
    ELSE IF st = 0 /\ c.op = "write_response" /\ c.status >= 200 THEN 1
    ELSE IF st = 1 /\ c.op = "write_body_chunk" THEN 1
    ELSE IF st = 1 /\ c.op = "write_body_end" THEN 2
    ELSE IF st = 2 /\ c.op = "write_trailers" THEN 3
    ELSE 4

RECURSIVE GrammarState(_)
GrammarState(calls) ==
    IF calls = <<>> THEN 0
    ELSE GrammarStep(GrammarState(SubSeq(calls, 1, Len(calls) - 1)), calls[Len(calls)])

\* total length of the chunks handed to the encoder, failed calls included
RECURSIVE ChunkBytes(_)
RECURSIVE YieldedLens(_)
RECURSIVE WrittenLens(_)
ChunkBytes(calls) ==
    IF calls = <<>> THEN 0
    ELSE ChunkBytes(SubSeq(calls, 1, Len(calls) - 1))
         + (IF calls[Len(calls)].op = "write_body_chunk" THEN calls[Len(calls)].len ELSE 0)

\* C1: the calls that reach the encoder always form a prefix of
\* write_response(1xx)* write_response(>=200) write_body_chunk*
\* write_body_end write_trailers?; the phase agrees with the position in
\* that grammar (ExpectHeaders: no final yet, ExpectBody: final written and
\* body open, Done: body ended), and once Done is reached, or the responder
\* is gone, no further encoder call is made.
C1_EncoderOrdering ==
    /\ [](/\ GrammarState(encoder_calls) /= 4
          /\ phase = "ExpectHeaders" => GrammarState(encoder_calls) = 0
          /\ phase = "ExpectBody" => GrammarState(encoder_calls) = 1
          /\ phase \in {"Done", "Unwrapped"} => GrammarState(encoder_calls) \in {2, 3})
    /\ [][ (phase \in {"Done", "Unwrapped", "Dropped"}) => (encoder_calls' = encoder_calls)
       ]_vars

C1_Witness ==
    /\ phase = "Done"
    /\ Len(encoder_calls) >= 5
    /\ encoder_calls[1].status = 100
    /\ \E i \in 1..Len(encoder_calls) : encoder_calls[i].op = "write_body_chunk"
    /\ LastCall.op = "write_trailers"

\* finish_body has returned (directly, or as the last step of
\* write_final_response_with_body)
FinishReturned ==
    \/ last.op = "finish_body"
    \/ last.op = WithBody /\ wfb_chunk.kind = "Done" /\ last.result \in {"ok", "err"}

LengthMatches ==
    \/ announced_content_length = None
    \/ announced_content_length = Some(ChunkBytes(encoder_calls))

\* C2: with L the announced length and T the total size of the chunks
\* written: when finish_body returns, it has reached Done if L is unset or
\* L = T (unless the encoder failed), and it has failed with the
\* content-length mismatch diagnostic carrying L and T if L is set and
\* differs from T, whether T < L or T > L; in every Done state with an
\* announced length, bytes_written equals it.
C2_ContentLengthAccounting ==
    /\ phase \in {"Done", "Unwrapped"} /\ IsSome(announced_content_length)
         => bytes_written = Unwrap(announced_content_length)
    /\ phase \in {"Done", "Unwrapped"} => LengthMatches
    /\ FinishReturned /\ ~LengthMatches
         => /\ phase = "Dropped"
            /\ last.result = "err"
            /\ last.err.kind = "content-length mismatch"
            /\ last.err.a = Unwrap(announced_content_length)
            /\ last.err.b = ChunkBytes(encoder_calls)
    /\ FinishReturned /\ LengthMatches
         => \/ phase = "Done" /\ last.result = "ok"
            \/ /\ phase = "Dropped"
               /\ last.err.kind = "EncoderError"
               /\ ~LastCall.ok

C2_Witness ==
    /\ last.op = "finish_body"
    /\ last.err.kind = "content-length mismatch"
    /\ last.err.a = 3
    /\ last.err.b = 4

\* C3: a step of write_interim_response with status s starts and ends in
\* ExpectHeaders with the responder still usable; if 100 <= s <= 199 it makes
\* exactly one encoder call, write_response with that response, and
\* otherwise it makes no encoder call and fails with
\* InterimResponseMustHaveStatusCode1xx carrying s.
C3_InterimResponse ==
    [][ last'.op = "write_interim_response" =>
          /\ phase = "ExpectHeaders" /\ phase' = "ExpectHeaders"
          /\ wfb_pc' = "idle"
          /\ IF last'.status >= 100 /\ last'.status <= 199
             THEN /\ Len(encoder_calls') = Len(encoder_calls) + 1
                  /\ SubSeq(encoder_calls', 1, Len(encoder_calls)) = encoder_calls
                  /\ encoder_calls'[Len(encoder_calls')].op = "write_response"
                  /\ encoder_calls'[Len(encoder_calls')].status = last'.status
                  /\ encoder_calls'[Len(encoder_calls')].headers = last'.headers
                  /\ (last'.result = "ok") = encoder_calls'[Len(encoder_calls')].ok
                  /\ last'.err.kind \in {"none", "EncoderError"}
             ELSE /\ encoder_calls' = encoder_calls
                  /\ last'.result = "err"
                  /\ last'.err.kind = "InterimResponseMustHaveStatusCode1xx"
                  /\ last'.err.a = last'.status
      ]_vars

C3_Witness ==
    /\ last.op = "write_interim_response"
    /\ last.err.kind = "InterimResponseMustHaveStatusCode1xx"
    /\ last.err.a = 200
    /\ phase = "ExpectHeaders"
    /\ Len(encoder_calls) = 1
    /\ encoder_calls[1].status = 199

\* The Content-Length header values of the model and the numbers they
\* stand for, written out
HeaderNumber(h) ==
    IF h = Some(<<"2">>) THEN Some(2)
    ELSE IF h = Some(<<"0", "3">>) THEN Some(3)
    ELSE IF h = Some(<<"1", "6">>) THEN Some(16)
    ELSE None

FinalCall ==
    encoder_calls[CHOOSE i \in 1..Len(encoder_calls) :
                     /\ encoder_calls[i].op = "write_response"
                     /\ encoder_calls[i].status >= 200]

FinalWritten ==
    \E i \in 1..Len(encoder_calls) :
        encoder_calls[i].op = "write_response" /\ encoder_calls[i].status >= 200

\* C5: in write_final_response_with_body with a body of known length N, the
\* response handed to the encoder carries Content-Length = N (decimal) when
\* the caller's headers had none, and the caller's Content-Length unchanged
\* when they had one; the announced length is the number in the header
\* handed to the encoder.  With a body of unknown length the headers are
\* handed over as the caller gave them.
C5_AutoContentLength ==
    last.op = WithBody /\ FinalWritten =>
        /\ FinalCall.headers =
             IF last.headers /= None THEN last.headers
             ELSE IF body_content_len = Some(2) THEN Some(<<"2">>)
             ELSE IF body_content_len = Some(16) THEN Some(<<"1", "6">>)
             ELSE IF body_content_len = Some(3) THEN Some(<<"3">>)
             ELSE None
        /\ FinalCall.ok =>
             announced_content_length =
                IF last.headers /= None THEN HeaderNumber(last.headers)
                ELSE body_content_len

C5_Witness ==
    /\ last.op = WithBody
    /\ last.headers = None
    /\ body_content_len = Some(16)
    /\ FinalWritten
    /\ FinalCall.headers = Some(<<"1", "6">>)
    /\ announced_content_length = Some(16)
    /\ phase = "ExpectBody"
    /\ wfb_pc = "pull"

\* C6: a write_chunk call that makes the total bytes sent exceed the
\* announced content-length returns an error.
C6_WriteChunkRejectsOverrun ==
    /\ last.op = "write_chunk"
    /\ IsSome(announced_content_length)
    /\ bytes_written > Unwrap(announced_content_length)
    => last.result = "err"

\* C10: bytes_written is always the sum of the lengths of all chunks handed
\* to write_chunk, failed encoder calls included, and a step that writes a
\* chunk leaves the announced length unchanged.
C10_AttemptedBytesCounted ==
    /\ [](bytes_written = ChunkBytes(encoder_calls))
    /\ [][ /\ Len(encoder_calls') = Len(encoder_calls) + 1
           /\ encoder_calls'[Len(encoder_calls')].op = "write_body_chunk"
           => /\ bytes_written' = bytes_written + encoder_calls'[Len(encoder_calls')].len
              /\ announced_content_length' = announced_content_length
       ]_vars

C10_Witness ==
    /\ phase = "ExpectBody"
    /\ Len(encoder_calls) >= 3
    /\ LastCall.op = "write_body_chunk" /\ LastCall.ok /\ LastCall.len = 1
    /\ encoder_calls[Len(encoder_calls) - 1].op = "write_body_chunk"
    /\ ~encoder_calls[Len(encoder_calls) - 1].ok
    /\ encoder_calls[Len(encoder_calls) - 1].len = 2
    /\ bytes_written = 3

\* a step in which finish_body runs, called by the handler or as the last
\* step of write_final_response_with_body
FinishStep ==
    \/ last'.op = "finish_body"
    \/ wfb_pc = "finish" /\ wfb_pc' = "idle" /\ last'.op = WithBody

\* the calls a step adds to the encoder's log
NewCalls == SubSeq(encoder_calls', Len(encoder_calls) + 1, Len(encoder_calls'))

\* C11: a finish_body that finds an announced length different from the
\* bytes written fails before any encoder call: the call log is unchanged
\* (final headers and the chunks written, no write_body_end, no
\* write_trailers) and the responder is gone without reaching Done.
C11_MismatchBeforeEncoder ==
    /\ [][ ( /\ FinishStep
             /\ IsSome(announced_content_length)
             /\ Unwrap(announced_content_length) /= ChunkBytes(encoder_calls) )
           => /\ encoder_calls' = encoder_calls
              /\ phase' = "Dropped"
              /\ last'.err.kind = "content-length mismatch"
       ]_vars
    /\ [](last.err.kind = "content-length mismatch"
            => /\ phase = "Dropped"
               /\ GrammarState(encoder_calls) = 1
               /\ \A i \in 1..Len(encoder_calls) :
                      encoder_calls[i].op \in {"write_response", "write_body_chunk"})

C11_Witness ==
    /\ last.op = "finish_body"
    /\ last.err.kind = "content-length mismatch"
    /\ phase = "Dropped"
    /\ Len(encoder_calls) = 2
    /\ encoder_calls[1].op = "write_response"
    /\ LastCall.op = "write_body_chunk"

\* a step in which finish_body runs with the trailers t
FinishWith(t) ==
    \/ finish_body(t)
    \/ wfb_finish /\ wfb_chunk.trailers = t

YieldedLens(pulls) ==
    IF pulls = <<>> THEN <<>>
    ELSE YieldedLens(SubSeq(pulls, 1, Len(pulls) - 1))
         \o (IF pulls[Len(pulls)].kind = "Chunk" THEN << pulls[Len(pulls)].len >> ELSE <<>>)

\* the lengths of the chunks handed to the encoder, in call order
WrittenLens(calls) ==
    IF calls = <<>> THEN <<>>
    ELSE WrittenLens(SubSeq(calls, 1, Len(calls) - 1))
         \o (IF calls[Len(calls)].op = "write_body_chunk"
             THEN << calls[Len(calls)].len >> ELSE <<>>)

\* the write_body_end and write_trailers calls, in call order
AfterChunks(calls) ==
    SelectSeq(calls, LAMBDA c : c.op \in {"write_body_end", "write_trailers"})

\* no body pull failed and no encoder call of the with-body run failed
WithBodyNoFailure ==
    /\ \A i \in 1..Len(body_pulls) : body_pulls[i].kind /= "Err"
    /\ \A i \in 1..Len(encoder_calls) :
          (encoder_calls[i].op /= "write_response" \/ encoder_calls[i].status >= 200)
          => encoder_calls[i].ok

\* C13: while neither the body nor the encoder fails,
\* write_final_response_with_body pulls until the first done: the encoder
\* gets exactly the chunks the body yielded, in order, each written before
\* the next pull; done calls finish_body with the trailers it carried, and
\* nothing is pulled after the done pull.
C13_WithBodyLoop ==
    (last.op = WithBody /\ WithBodyNoFailure) =>
        /\ \A i \in 1..(Len(body_pulls) - 1) : body_pulls[i].kind = "Chunk"
        /\ wfb_pc = "chunk" =>
              /\ wfb_chunk = body_pulls[Len(body_pulls)]
              /\ YieldedLens(body_pulls)
                   = Append(WrittenLens(encoder_calls), wfb_chunk.len)
        /\ wfb_pc /= "chunk" => YieldedLens(body_pulls) = WrittenLens(encoder_calls)
        /\ wfb_pc = "pull" => AfterChunks(encoder_calls) = <<>>
        /\ wfb_pc = "finish" =>
              /\ body_pulls[Len(body_pulls)].kind = "Done"
              /\ AfterChunks(encoder_calls) = <<>>
        /\ (wfb_pc = "idle" /\ FinalWritten /\ last.result = "err") =>
              /\ last.err.kind = "content-length mismatch"
              /\ body_pulls[Len(body_pulls)].kind = "Done"
        /\ last.result = "ok" =>
              /\ phase = "Done"
              /\ body_pulls[Len(body_pulls)].kind = "Done"
              /\ LET t == body_pulls[Len(body_pulls)].trailers
                     tail == AfterChunks(encoder_calls)
                 IN /\ Len(tail) = IF IsSome(t) THEN 2 ELSE 1
                    /\ tail[1].op = "write_body_end"
                    /\ IsSome(t) => /\ tail[2].op = "write_trailers"
                                    /\ tail[2].trailers = t

C13_Witness ==
    /\ phase = "Done"
    /\ last.op = WithBody
    /\ last.result = "ok"
    /\ YieldedLens(body_pulls) = << 1, 2 >>
    /\ WrittenLens(encoder_calls) = << 1, 2 >>
    /\ body_pulls[3] = Done(Some("trailers"))
    /\ LastCall.op = "write_trailers"

\* C14: in write_final_response_with_body the first failure of a body
\* pull, of a chunk write or of finish_body is returned at once and ends the
\* run: no further pull, no further encoder call, Done not reached.  After
\* a failed pull the encoder holds the final headers and the chunks written
\* before it, and never gets write_body_end.
C14_FirstFailureAborts ==
    /\ [](last.op = WithBody =>
            /\ \A i \in 1..Len(body_pulls) :
                  body_pulls[i].kind = "Err" =>
                      /\ i = Len(body_pulls)
                      /\ last.result = "err"
                      /\ last.err.kind = "BodyError"
                      /\ GrammarState(encoder_calls) = 1
                      /\ WrittenLens(encoder_calls) = YieldedLens(body_pulls)
            /\ \A i \in 1..Len(encoder_calls) :
                  ( /\ encoder_calls[i].op /= "write_response" \/ encoder_calls[i].status >= 200
                    /\ ~encoder_calls[i].ok )
                  => /\ i = Len(encoder_calls)
                     /\ last.result = "err"
                     /\ last.err.kind = "EncoderError"
            /\ last.result = "err" => /\ phase = "Dropped"
                                      /\ wfb_pc = "idle")
    /\ [][ (last.op = WithBody /\ last.result = "err")
           => /\ encoder_calls' = encoder_calls
              /\ body_pulls' = body_pulls
              /\ phase' /= "Done"
       ]_vars

C14_Witness ==
    /\ last.op = WithBody
    /\ last.err.kind = "BodyError"
    /\ phase = "Dropped"
    /\ Len(body_pulls) = 2
    /\ body_pulls[1].kind = "Chunk"
    /\ body_pulls[2] = PullError
    /\ Len(encoder_calls) = 2
    /\ LastCall.op = "write_body_chunk"

(***************************************************************************)
(* H2Body: the HTTP/2 body adapter over a tokio mpsc channel of            *)
(* eyre::Result<Roll>.  The demultiplexer owns the Sender.                 *)
(***************************************************************************)
\* capacity of the channel
MaxInbox == 2
\* messages the demultiplexer sends in one exploration
MaxSent == 3
\* pulls the consumer issues in one exploration
MaxPulls == 4
\* largest Roll length
MaxRollLen == 2

\* messages of the channel: Ok(roll) with the roll's length, or Err(e)
OkRoll(len) == [ ok |-> TRUE, len |-> len ]

ErrMsg == [ ok |-> FALSE, len |-> 0 ]

Messages == { OkRoll(n) : n \in 1..MaxRollLen } \cup { ErrMsg }

\* the demultiplexer sends a message (Sender::send)
demux_send(msg) ==
    /\ ~tx_dropped
    /\ Len(rx) < MaxInbox
    /\ Len(sent) < MaxSent
    /\ rx' = Append(rx, msg)
    /\ sent' = Append(sent, msg)
    /\ UNCHANGED << h2_content_length, eof, tx_dropped, pulled >>

\* the demultiplexer drops the Sender: the channel is closed, queued
\* messages stay receivable
demux_close ==
    /\ ~tx_dropped
    /\ tx_dropped' = TRUE
    /\ UNCHANGED << h2_content_length, eof, rx, sent, pulled >>

\* the HTTP/2 layer sets the EOF flag (END_STREAM without further DATA)
h2_set_eof ==
    /\ ~eof
    /\ eof' = TRUE
    /\ UNCHANGED << h2_content_length, rx, tx_dropped, sent, pulled >>

\* H2Body::content_len
content_len == h2_content_length

\* H2Body::eof, the EOF predicate
eof_predicate == eof

\* next_chunk that does not record the closure of the inbox
next_chunk_eof_not_set ==
    /\ Len(pulled) < MaxPulls
    /\ IF eof
       THEN /\ pulled' = Append(pulled, Done(None))
            /\ UNCHANGED << eof, rx >>
       ELSE IF rx /= <<>>
       THEN /\ rx' = Tail(rx)
            /\ pulled' = Append(pulled,
                   IF Head(rx).ok THEN Chunk(Head(rx).len) ELSE PullError)
            /\ UNCHANGED eof
       ELSE /\ tx_dropped
            /\ pulled' = Append(pulled, Done(None))
            /\ UNCHANGED << eof, rx >>
    /\ UNCHANGED << h2_content_length, tx_dropped, sent >>

\* next_chunk that drains the inbox before it honours the EOF flag
next_chunk_drain_first ==
    /\ Len(pulled) < MaxPulls
    /\ IF rx /= <<>>
       THEN /\ rx' = Tail(rx)
            /\ pulled' = Append(pulled,
                   IF Head(rx).ok THEN Chunk(Head(rx).len) ELSE PullError)
            /\ UNCHANGED eof
       ELSE IF eof
       THEN /\ pulled' = Append(pulled, Done(None))
            /\ UNCHANGED << eof, rx >>
       ELSE /\ tx_dropped
            /\ eof' = TRUE
            /\ pulled' = Append(pulled, Done(None))
            /\ UNCHANGED rx
    /\ UNCHANGED << h2_content_length, tx_dropped, sent >>

\* next_chunk that treats an error message as the end of the body
next_chunk_eof_on_error ==
    /\ Len(pulled) < MaxPulls
    /\ IF eof
       THEN /\ pulled' = Append(pulled, Done(None))
            /\ UNCHANGED << eof, rx >>
       ELSE IF rx /= <<>>
       THEN /\ rx' = Tail(rx)
            /\ pulled' = Append(pulled,
                   IF Head(rx).ok THEN Chunk(Head(rx).len) ELSE PullError)
            /\ eof' = ~Head(rx).ok
       ELSE /\ tx_dropped
            /\ eof' = TRUE
            /\ pulled' = Append(pulled, Done(None))
            /\ UNCHANGED rx
    /\ UNCHANGED << h2_content_length, tx_dropped, sent >>

\* next_chunk that reports done as soon as the inbox is empty (try_recv)
next_chunk_done_when_empty ==
    /\ Len(pulled) < MaxPulls
    /\ IF eof
       THEN /\ pulled' = Append(pulled, Done(None))
            /\ UNCHANGED << eof, rx >>
       ELSE IF rx /= <<>>
       THEN /\ rx' = Tail(rx)
            /\ pulled' = Append(pulled,
                   IF Head(rx).ok THEN Chunk(Head(rx).len) ELSE PullError)
            /\ UNCHANGED eof
       ELSE /\ eof' = TRUE
            /\ pulled' = Append(pulled, Done(None))
            /\ UNCHANGED rx
    /\ UNCHANGED << h2_content_length, tx_dropped, sent >>

\* next_chunk whose done on a closed inbox carries trailers
next_chunk_with_trailers ==
    /\ Len(pulled) < MaxPulls
    /\ IF eof
       THEN /\ pulled' = Append(pulled, Done(None))
            /\ UNCHANGED << eof, rx >>
       ELSE IF rx /= <<>>
       THEN /\ rx' = Tail(rx)
            /\ pulled' = Append(pulled,
                   IF Head(rx).ok THEN Chunk(Head(rx).len) ELSE PullError)
            /\ UNCHANGED eof
       ELSE /\ tx_dropped
            /\ eof' = TRUE
            /\ pulled' = Append(pulled, Done(Some("trailers")))
            /\ UNCHANGED rx
    /\ UNCHANGED << h2_content_length, tx_dropped, sent >>

\* next_chunk whose recv never completes on a closed and drained inbox
next_chunk_waits_when_closed ==
    /\ Len(pulled) < MaxPulls
    /\ IF eof
       THEN /\ pulled' = Append(pulled, Done(None))
            /\ UNCHANGED << eof, rx >>
       ELSE /\ rx /= <<>>
            /\ rx' = Tail(rx)
            /\ pulled' = Append(pulled,
                   IF Head(rx).ok THEN Chunk(Head(rx).len) ELSE PullError)
            /\ UNCHANGED eof
    /\ UNCHANGED << h2_content_length, tx_dropped, sent >>

\* H2Body::next_chunk(&mut self); rx.recv() completes when a message is
\* queued or the channel is closed and drained
next_chunk ==
    /\ Len(pulled) < MaxPulls
    /\ IF eof
       THEN /\ pulled' = Append(pulled, Done(None))
            /\ UNCHANGED << eof, rx >>
       ELSE IF rx /= <<>>
       THEN /\ rx' = Tail(rx)
            /\ pulled' = Append(pulled,
                   IF Head(rx).ok THEN Chunk(Head(rx).len) ELSE PullError)
            /\ UNCHANGED eof
       ELSE /\ tx_dropped
            /\ eof' = TRUE
            /\ pulled' = Append(pulled, Done(None))
            /\ UNCHANGED rx
    /\ UNCHANGED << h2_content_length, tx_dropped, sent >>

\* the HTTP/2 layer creates the body when the request headers are parsed
BodyInit ==
    /\ h2_content_length \in BodyLens
    /\ eof = FALSE
    /\ rx = <<>>
    /\ tx_dropped = FALSE
    /\ sent = <<>>
    /\ pulled = <<>>

RespAtRest ==
    /\ phase = "Dropped"
    /\ announced_content_length = None
    /\ bytes_written = 0
    /\ encoder_calls = <<>>
    /\ last = Outcome("none", 0, None, "ok", NoError)
    /\ wfb_pc = "idle"
    /\ wfb_chunk = NoChunk
    /\ body_pulls = <<>>
    /\ body_content_len = None

InitBody == RespAtRest /\ BodyInit /\ RPAtRest

NextBody ==
    \/ /\ \E msg \in Messages : demux_send(msg)
       /\ UNCHANGED << respVars, rpVars >>
    \/ demux_close /\ UNCHANGED << respVars, rpVars >>
    \/ h2_set_eof /\ UNCHANGED << respVars, rpVars >>
    \/ next_chunk /\ UNCHANGED << respVars, rpVars >>

SpecBody == InitBody /\ [][NextBody]_vars

\* C7: once a pull has returned done, the EOF predicate holds for good and
\* every later pull returns done with no trailers, whatever is sent to or
\* done with the inbox afterwards.
C7_DoneIsStable ==
    \A i \in 1..Len(pulled) :
        pulled[i].kind = "Done" =>
            /\ eof_predicate
            /\ \A j \in i..Len(pulled) :
                   pulled[j].kind = "Done" /\ pulled[j].trailers = None

C7_Witness ==
    /\ Len(pulled) >= 3
    /\ pulled[1].kind = "Chunk"
    /\ pulled[2].kind = "Done"
    /\ pulled[Len(pulled)].kind = "Done"
    /\ tx_dropped
    /\ eof

\* a step in which a pull of the adapter returns
PullStep == Len(pulled') = Len(pulled) + 1

\* C15: with the EOF flag set, by the adapter or by the HTTP/2 layer, a
\* pull returns done without trailers and does not receive from the inbox:
\* the inbox keeps its contents, so the chunks queued in it are never
\* delivered.
C15_EofSkipsInbox ==
    /\ [][ (eof /\ PullStep)
           => /\ pulled' = Append(pulled, Done(None))
              /\ rx' = rx
              /\ eof'
       ]_vars
    /\ [][ eof => /\ Len(rx') >= Len(rx)
                  /\ SubSeq(rx', 1, Len(rx)) = rx ]_vars

C15_Witness ==
    /\ eof
    /\ ~tx_dropped
    /\ rx = << OkRoll(1), OkRoll(2) >>
    /\ pulled = << Done(None), Done(None) >>

\* C16: when the next message of the inbox is an error, the pull fails
\* with it: the message is consumed, the EOF flag and the stored content
\* length are unchanged, and a later pull goes on receiving from the inbox
\* instead of returning done.
C16_ErrorIsNotEof ==
    /\ [][ (~eof /\ PullStep /\ rx /= <<>> /\ ~Head(rx).ok)
           => /\ pulled' = Append(pulled, PullError)
              /\ rx' = Tail(rx)
              /\ eof' = eof
              /\ h2_content_length' = h2_content_length
       ]_vars
    /\ [][ ( /\ PullStep
             /\ pulled /= <<>>
             /\ pulled[Len(pulled)] = PullError
             /\ ~eof )
           => IF rx /= <<>>
              THEN /\ rx' = Tail(rx)
                   /\ pulled'[Len(pulled')]
                        = IF Head(rx).ok THEN Chunk(Head(rx).len) ELSE PullError
              ELSE /\ tx_dropped
                   /\ pulled'[Len(pulled')] = Done(None)
       ]_vars

C16_Witness ==
    /\ ~eof
    /\ Len(pulled) = 3
    /\ pulled[1].kind = "Chunk"
    /\ pulled[2] = PullError
    /\ pulled[3] = Chunk(2)
    /\ sent = << OkRoll(1), ErrMsg, OkRoll(2) >>

(***************************************************************************)
(* H2Body whose EOF flag is set by the adapter only: the demultiplexer     *)
(* sends and closes, the consumer pulls.                                   *)
(***************************************************************************)
NextBodySelf ==
    \/ /\ \E msg \in Messages : demux_send(msg)
       /\ UNCHANGED << respVars, rpVars >>
    \/ demux_close /\ UNCHANGED << respVars, rpVars >>
    \/ next_chunk /\ UNCHANGED << respVars, rpVars >>

SpecBodySelf == InitBody /\ [][NextBodySelf]_vars

\* what a pull returns for a message of the inbox
Delivered(msg) == IF msg.ok THEN Chunk(msg.len) ELSE PullError

\* the pulls that returned a message
MessagePulls == SelectSeq(pulled, LAMBDA c : c.kind /= "Done")

\* C18: when only the adapter sets the EOF flag, in every interleaving of
\* the demultiplexer (send a chunk, send an error, close) and the adapter
\* (pull), the pulls return exactly the messages sent, in send order, each
\* once; a pull returns done only after the inbox was closed and every
\* message sent before the close was delivered.
C18_FifoDelivery ==
    /\ Len(MessagePulls) + Len(rx) = Len(sent)
    /\ \A i \in 1..Len(MessagePulls) : MessagePulls[i] = Delivered(sent[i])
    /\ \A i \in 1..Len(rx) : rx[i] = sent[Len(MessagePulls) + i]
    /\ \A i \in 1..Len(pulled) :
          pulled[i].kind = "Done" =>
              /\ tx_dropped
              /\ rx = <<>>
              /\ \A j \in i..Len(pulled) : pulled[j].kind = "Done"
              /\ Len(MessagePulls) = Len(sent)

C18_Witness ==
    /\ sent = << OkRoll(2), ErrMsg, OkRoll(1) >>
    /\ pulled = << Chunk(2), PullError, Chunk(1), Done(None) >>
    /\ tx_dropped
    /\ eof

(***************************************************************************)
(* H2Body under fair scheduling: the demultiplexer task ends and drops the *)
(* Sender, and the consumer pulls again whenever a pull can complete.      *)
(***************************************************************************)
SpecBodyLive ==
    /\ InitBody
    /\ [][NextBody]_vars
    /\ WF_vars(demux_close /\ UNCHANGED << respVars, rpVars >>)
    /\ WF_vars(next_chunk /\ UNCHANGED << respVars, rpVars >>)

\* C19: when the demultiplexer sends finitely many messages and then
\* closes the inbox, and the consumer keeps pulling, failed pulls included,
\* some pull eventually returns done and the EOF flag is eventually set
\* and stays set.
C19_EventuallyDone ==
    /\ <>(\E i \in 1..Len(pulled) : pulled[i].kind = "Done")
    /\ <>[]eof

C19_Witness ==
    /\ eof
    /\ tx_dropped
    /\ sent = << ErrMsg, OkRoll(1) >>
    /\ pulled = << PullError, Chunk(1), Done(None) >>

(***************************************************************************)
(* write_final_response_with_body driven by an H2Body: the body the loop   *)
(* pulls is the adapter, fed by the demultiplexer while the loop runs.     *)
(***************************************************************************)
\* `body.next_chunk().await?` on an H2Body
wfb_pull_h2 ==
    /\ phase = "ExpectBody"
    /\ wfb_pc = "pull"
    /\ next_chunk
    /\ wfb_on_pull(pulled'[Len(pulled')])
    /\ UNCHANGED << announced_content_length, bytes_written, encoder_calls,
                    body_content_len >>

InitH2Drive == RespInit /\ BodyInit /\ RPAtRest

NextH2Drive ==
    \/ /\ \E res \in Responses : wfb_start(res, content_len)
       /\ UNCHANGED << bodyVars, rpVars >>
    \/ /\ \E msg \in Messages : demux_send(msg)
       /\ UNCHANGED << respVars, rpVars >>
    \/ demux_close /\ UNCHANGED << respVars, rpVars >>
    \/ h2_set_eof /\ UNCHANGED << respVars, rpVars >>
    \/ wfb_pull_h2 /\ UNCHANGED rpVars
    \/ wfb_write_chunk /\ UNCHANGED << bodyVars, rpVars >>
    \/ wfb_finish /\ UNCHANGED << bodyVars, rpVars >>

SpecH2Drive == InitH2Drive /\ [][NextH2Drive]_vars

\* C17: every done the adapter returns, on the EOF path and on the closed
\* inbox path, carries no trailers; so write_final_response_with_body
\* driven by an H2Body never calls the encoder's write_trailers.
C17_NoTrailersFromH2Body ==
    /\ body_pulls = pulled
    /\ \A i \in 1..Len(pulled) :
          pulled[i].kind = "Done" => pulled[i].trailers = None
    /\ \A i \in 1..Len(encoder_calls) : encoder_calls[i].op /= "write_trailers"
    /\ (last.op = WithBody /\ last.result = "ok") =>
          /\ LastCall.op = "write_body_end"
          /\ pulled[Len(pulled)] = Done(None)

C17_Witness ==
    /\ phase = "Done"
    /\ last.op = WithBody
    /\ last.result = "ok"
    /\ tx_dropped
    /\ sent = << OkRoll(1), OkRoll(2) >>
    /\ pulled = << Chunk(1), Chunk(2), Done(None) >>
    /\ Len(encoder_calls) = 4
    /\ LastCall.op = "write_body_end"

(***************************************************************************)
(* read_and_parse(parser, stream, buf, max_len).  The buffer is modelled   *)
(* by its filled length; the parser is any function, so each run of it may *)
(* report success with some rest, incomplete, or an error.                 *)
(***************************************************************************)
\* largest buf.len() on entry
MaxBufInit == 3
\* largest max_len
MaxLimit == 3
\* most bytes the transport delivers before end of stream
MaxStream == 3
\* width of usize in the model
UsizeBits == 8

UsizeModulus == 2 ^ UsizeBits

RPResult(kind, limit, rest) == [ kind |-> kind, limit |-> limit, rest |-> rest ]

Min(a, b) == IF a < b THEN a ELSE b

\* One pass of the loop up to the read: the parser runs on buf.filled();
\* on incomplete, read_limit is computed, the limit is checked and the
\* buffer reserved.  `max_len - buf.len()` is evaluated before the limit
\* check: when buf.len() > max_len it panics in a build with overflow
\* checks and wraps in a build without.
rp_parse ==
    /\ rp_pc = "parse"
    /\ \/ \E rest \in 0..buf_len :
            /\ parsed' = "ok"
            /\ buf_len' = rest
            /\ rp_result' = RPResult("Ok(Some)", 0, rest)
            /\ rp_pc' = "done"
            /\ UNCHANGED read_limit
       \/ /\ parsed' = "error"
          /\ rp_result' = RPResult("ParsingError", 0, 0)
          /\ rp_pc' = "done"
          /\ UNCHANGED << buf_len, read_limit >>
       \/ /\ parsed' = "incomplete"
          /\ UNCHANGED buf_len
          /\ \/ /\ buf_len > max_len
                /\ rp_result' = RPResult("panic", 0, 0)
                /\ rp_pc' = "done"
                /\ UNCHANGED read_limit
             \/ /\ read_limit' = (max_len - buf_len) % UsizeModulus
                /\ IF buf_len >= max_len
                   THEN /\ rp_result' = RPResult("BufferLimitReachedWhileParsing", max_len, 0)
                        /\ rp_pc' = "done"
                   ELSE \E cap_is_zero \in BOOLEAN : \E reserve_ok \in BOOLEAN :
                        IF cap_is_zero /\ ~reserve_ok
                        THEN /\ rp_result' = RPResult("Alloc", 0, 0)
                             /\ rp_pc' = "done"
                        ELSE /\ rp_pc' = "read"
                             /\ UNCHANGED rp_result
    /\ UNCHANGED << max_len, stream_left, last_n, reads, buf_init >>

\* the n == 0 branch with the is_empty test inverted
zero_read_result_inverted(len) ==
    IF len = 0
    THEN RPResult("ReadError(UnexpectedEof)", 0, 0)
    ELSE RPResult("Ok(None)", 0, 0)

\* the n == 0 branch: unexpected EOF when the buffer holds a partial
\* message, the clean end of stream when it is empty
zero_read_result(len) ==
    IF len /= 0
    THEN RPResult("ReadError(UnexpectedEof)", 0, 0)
    ELSE RPResult("Ok(None)", 0, 0)

\* a read whose bytes are not added to the filled length
rp_read_buffer_not_filled ==
    /\ rp_pc = "read"
    /\ reads' = reads + 1
    /\ \/ /\ rp_result' = RPResult("ReadError(io)", 0, 0)
          /\ rp_pc' = "done"
          /\ UNCHANGED << buf_len, stream_left, last_n >>
       \/ \E n \in 0..Min(read_limit, stream_left) :
            /\ (n = 0) = (stream_left = 0)
            /\ last_n' = n
            /\ UNCHANGED buf_len
            /\ stream_left' = stream_left - n
            /\ IF n = 0
               THEN /\ rp_pc' = "done"
                    /\ rp_result' = zero_read_result(buf_len)
               ELSE /\ rp_pc' = "parse"
                    /\ UNCHANGED rp_result
    /\ UNCHANGED << max_len, read_limit, parsed, buf_init >>

\* The rest of the pass: buf.read_into(read_limit, stream) and the check of
\* the number of bytes read
rp_read ==
    /\ rp_pc = "read"
    /\ reads' = reads + 1
    /\ \/ /\ rp_result' = RPResult("ReadError(io)", 0, 0)
          /\ rp_pc' = "done"
          /\ UNCHANGED << buf_len, stream_left, last_n >>
       \/ \E n \in 0..Min(read_limit, stream_left) :
            /\ (n = 0) = (stream_left = 0)
            /\ last_n' = n
            /\ buf_len' = buf_len + n
            /\ stream_left' = stream_left - n
            /\ IF n = 0
               THEN /\ rp_pc' = "done"
                    /\ rp_result' = zero_read_result(buf_len)
               ELSE /\ rp_pc' = "parse"
                    /\ UNCHANGED rp_result
    /\ UNCHANGED << max_len, read_limit, parsed, buf_init >>

\* a call of read_and_parse with some buffer, limit and transport
RPInit ==
    /\ rp_pc = "parse"
    /\ buf_len \in 0..MaxBufInit
    /\ buf_init = buf_len
    /\ max_len \in 0..MaxLimit
    /\ stream_left \in 0..MaxStream
    /\ read_limit = 0
    /\ parsed = "none"
    /\ last_n = -1
    /\ reads = 0
    /\ rp_result = RPResult("none", 0, 0)

InitRP == RespAtRest /\ BodyAtRest /\ RPInit

NextRP ==
    \/ rp_parse /\ UNCHANGED << respVars, bodyVars >>
    \/ rp_read /\ UNCHANGED << respVars, bodyVars >>

SpecRP == InitRP /\ [][NextRP]_vars

\* C8: when read_into has returned 0, read_and_parse has returned: the
\* clean end-of-stream Ok(None) if the buffer is empty, and
\* ReadError(UnexpectedEof) if it is not.
C8_ZeroRead ==
    last_n = 0 =>
        /\ rp_pc = "done"
        /\ buf_len = 0 => rp_result.kind = "Ok(None)"
        /\ buf_len > 0 => rp_result.kind = "ReadError(UnexpectedEof)"

C8_Witness ==
    /\ last_n = 0
    /\ reads = 2
    /\ buf_len = 1
    /\ buf_init = 0
    /\ rp_result.kind = "ReadError(UnexpectedEof)"

\* C9: whenever the parser reports incomplete while the filled length has
\* reached max_len, the call returns BufferLimitReachedWhileParsing with
\* limit = max_len and issues no read; and no read makes the filled length
\* exceed max_len.
C9_BufferLimit ==
    /\ [][ (rp_pc = "parse" /\ parsed' = "incomplete" /\ buf_len >= max_len)
           => /\ rp_pc' = "done"
              /\ rp_result' = RPResult("BufferLimitReachedWhileParsing", max_len, 0)
              /\ reads' = reads
       ]_vars
    /\ [][ (buf_len' > buf_len) => (buf_len' <= max_len) ]_vars

\* C21: whenever `max_len - buf.len()` is evaluated, on an incomplete
\* parse, the filled length is at most max_len: the subtraction does not
\* underflow, so the call never panics on it and the read limit never
\* wraps above max_len.
C21_ReadLimitNoUnderflow ==
    /\ [][ (rp_pc = "parse" /\ parsed' = "incomplete") => buf_len <= max_len ]_vars
    /\ [](rp_result.kind /= "panic" /\ read_limit <= max_len)

(***************************************************************************)
(* read_and_parse with a parser that returns and a transport whose reads   *)
(* complete: the loop takes its next step whenever it has one.             *)
(***************************************************************************)
SpecRPLive == InitRP /\ [][NextRP]_vars /\ WF_vars(NextRP)

\* C20: read_and_parse terminates.  Every pass of the loop returns or does
\* one read that strictly increases the filled length, which stays within
\* max_len; so a call entered with a buffer no longer than max_len returns
\* after at most max_len minus the initial length reads.
C20_Terminates ==
    /\ [][ /\ rp_pc = "parse" => rp_pc' \in {"done", "read"}
           /\ rp_pc = "read" =>
                 /\ reads' = reads + 1
                 /\ \/ rp_pc' = "done"
                    \/ /\ rp_pc' = "parse"
                       /\ buf_len' > buf_len
                       /\ buf_len' <= max_len
       ]_vars
    /\ [](buf_init <= max_len => reads <= max_len - buf_init)
    /\ (buf_init <= max_len) => <>(rp_pc = "done" /\ rp_result.kind /= "panic")

C20_Witness ==
    /\ rp_pc = "done"
    /\ buf_init = 0
    /\ max_len = 3
    /\ reads = 3
    /\ buf_len = 3
    /\ rp_result.kind = "BufferLimitReachedWhileParsing"

====
